---- MODULE Spec2Model ----
(***************************************************************************)
(* Model of src/vector.h: RawMemory<T> (an owned block of raw slots) and   *)
(* Vector<T> (one RawMemory plus a logical size).                          *)
(*                                                                         *)
(* The heap is a small pool of blocks.  A block is a sequence of slots; a  *)
(* slot is Raw (no live element) or holds the value of a live element.     *)
(* The element type T is a parameter of the run.  For the integer-like     *)
(* type, value-initialisation gives Default, default-initialisation leaves *)
(* the value indeterminate, and copy and move transfer the value and leave *)
(* the source as it was.  For a class type, default-initialisation gives   *)
(* Default, a move leaves the source holding Default, constructors can     *)
(* throw, and running a destructor or an assignment on raw memory, or a    *)
(* constructor on a live element, wrecks the slot.                         *)
(*                                                                         *)
(* Slot i of the code (0-based) is mem[i + 1] of the block.                *)
(***************************************************************************)
EXTENDS Integers, Sequences, FiniteSets, TLC

\* ---------------------------------------------------------------- bounds
MaxCap == 6        \* largest capacity explored with a single vector
MaxCap2 == 2       \* largest capacity explored with two vectors
MaxOps == 6        \* number of PushBack calls explored in the push/pop runs
NBlocks == 3       \* addresses the allocator can hand out (2 vectors + 1 temporary)

\* ------------------------------------------------------- program values
Vecs == {"a", "b"}
Default == 0       \* T(): the value of a value-initialised element
Other == 1         \* a value of T that differs from T()
\* The code never inspects an element (it only constructs, assigns and destroys
\* them), so two distinguishable values show every misplaced, lost or
\* uninitialised element.
Values == {Default, Other}
Raw == -1          \* a slot of raw memory: no live element
Wrecked == -2      \* a slot a class-type T was misused on (undefined behaviour)
NullPtr == 0       \* RawMemory::buffer_ of an arena that owns no block

\* the element types: what the code asks of T (the traits of line 211) and
\* whether T is trivial (an arithmetic type) or a class
IntLike == [trivial |-> TRUE, nothrow_move_constructible |-> TRUE,
            copy_constructible |-> TRUE]
StringLike == [trivial |-> FALSE, nothrow_move_constructible |-> TRUE,
               copy_constructible |-> TRUE]
ThrowingMove == [trivial |-> FALSE, nothrow_move_constructible |-> FALSE,
                 copy_constructible |-> TRUE]
MoveOnly == [trivial |-> FALSE, nothrow_move_constructible |-> FALSE,
             copy_constructible |-> FALSE]
ClassTypes == {StringLike, ThrowingMove, MoveOnly}

VARIABLES
    T,          \* the element type the templates are instantiated with
    alive,      \* alive[v]: a Vector object v exists
    buffer_,    \* buffer_[v]: RawMemory::buffer_ of v.data_ (a block id or NullPtr)
    capacity_,  \* capacity_[v]: RawMemory::capacity_ of v.data_
    size_,      \* size_[v]: Vector::size_
    heap,       \* heap[b]: [used, mem] the allocator's blocks
    op,         \* the call that produced this state (name and arguments)
    saved,      \* the element sequence before the last Insert/Emplace call
    pushed,     \* push/pop runs: the values pushed and not yet popped
    nPush,      \* push/pop runs: number of PushBack calls
    nPop,       \* push/pop runs: number of PopBack calls
    nRealloc    \* push runs: number of calls that replaced the vector's block

vars == <<T, alive, buffer_, capacity_, size_, heap, op, saved, pushed, nPush, nPop,
          nRealloc>>
ghost == <<pushed, nPush, nPop, nRealloc>>

\* the calls that go through Emplace
InsertCalls == {"Insert", "Insert&&", "Emplace"}

\* ------------------------------------------------------------ RawMemory
FreeBlock == [used |-> FALSE, mem |-> <<>>]

\* RawMemory::Allocate: the address returned (nullptr for n = 0)
Allocate(h, n) ==
    IF n # 0
    THEN CHOOSE b \in 1 .. NBlocks :
            /\ ~h[b].used
            /\ \A c \in 1 .. (b - 1) : h[c].used
    ELSE NullPtr

\* RawMemory(capacity): the heap once the block of n raw slots exists
RawMemory(h, n) ==
    IF n # 0
    THEN [h EXCEPT ![Allocate(h, n)] = [used |-> TRUE, mem |-> [i \in 1 .. n |-> Raw]]]
    ELSE h

\* RawMemory::Deallocate, as run by ~RawMemory: operator delete releases the
\* block and runs no destructor.  What the block still held is kept with the
\* released block until the address is handed out again: elements that were
\* never destroyed and wrecked slots (a block of raw slots leaves nothing);
\* releasing a block that is not allocated wrecks it.
Deallocate(h, buf) ==
    IF buf = NullPtr THEN h
    ELSE [h EXCEPT ![buf] =
            [used |-> FALSE,
             mem |-> IF @.used THEN SelectSeq(@.mem, LAMBDA s : s # Raw)
                     ELSE Append(@.mem, Wrecked)]]

\* ------------------------------------------------ element-level helpers
\* a slot holds a live element
Live(s) == s # Raw /\ s # Wrecked

\* the slot s after a constructor of T built the value x in it
Constructed(s, x) == IF s = Raw \/ T.trivial THEN x ELSE Wrecked

\* the slot s after an assignment operator of T stored the value x in it
Assigned(s, x) == IF Live(s) \/ T.trivial THEN x ELSE Wrecked

\* the slot s after the destructor of T ran on it
Destroyed(s) == IF Live(s) \/ T.trivial THEN Raw ELSE Wrecked

\* the value an element holds after it was moved from
MovedFrom(x) == IF T.trivial \/ ~Live(x) THEN x ELSE Default

\* new (buf + i) T(x)
ConstructAt(h, buf, i, x) == [h EXCEPT ![buf].mem[i + 1] = Constructed(@, x)]

\* buf[i] = x
AssignAt(h, buf, i, x) == [h EXCEPT ![buf].mem[i + 1] = Assigned(@, x)]

\* a destroy_n that runs no destructor
DestroyNothing(h, buf, first, n) == h

\* std::destroy_n(buf + first, n)
DestroyN(h, buf, first, n) ==
    IF n = 0 THEN h
    ELSE [h EXCEPT ![buf].mem =
            [j \in 1 .. Len(@) |->
                IF j - 1 >= first /\ j - 1 < first + n THEN Destroyed(@[j]) ELSE @[j]]]

\* an uninitialized_move_n that stops one element early
UninitializedMoveShort(h, from, fi, n, to, ti) ==
    IF n <= 1 THEN h
    ELSE [h EXCEPT ![to].mem =
            [j \in 1 .. Len(@) |->
                IF j - 1 >= ti /\ j - 1 < ti + n - 1
                THEN h[from].mem[j - ti + fi]
                ELSE @[j]]]

\* std::uninitialized_move_n(from + fi, n, to + ti), from and to being
\* different blocks
UninitializedMoveN(h, from, fi, n, to, ti) ==
    IF n = 0 THEN h
    ELSE [h EXCEPT ![to].mem =
            [j \in 1 .. Len(@) |->
                IF j - 1 >= ti /\ j - 1 < ti + n
                THEN Constructed(@[j], h[from].mem[j - ti + fi])
                ELSE @[j]],
                   ![from].mem =
            [j \in 1 .. Len(@) |->
                IF j - 1 >= fi /\ j - 1 < fi + n THEN MovedFrom(@[j]) ELSE @[j]]]

\* std::uninitialized_copy_n(from + fi, n, to + ti)
UninitializedCopyN(h, from, fi, n, to, ti) ==
    IF n = 0 THEN h
    ELSE [h EXCEPT ![to].mem =
            [j \in 1 .. Len(@) |->
                IF j - 1 >= ti /\ j - 1 < ti + n
                THEN Constructed(@[j], h[from].mem[j - ti + fi])
                ELSE @[j]]]

\* std::uninitialized_move_n when the move of element k (0-based, k < n)
\* throws: the k elements already built are destroyed again, their sources
\* stay moved-from, and the exception leaves the call
UninitializedMoveNThrows(h, from, fi, n, to, ti, k) ==
    DestroyN(UninitializedMoveN(h, from, fi, k, to, ti), to, ti, k)

\* std::uninitialized_copy_n when the copy of element k (0-based, k < n)
\* throws: the k elements already built are destroyed again and the
\* exception leaves the call
UninitializedCopyNThrows(h, from, fi, n, to, ti, k) ==
    DestroyN(UninitializedCopyN(h, from, fi, k, to, ti), to, ti, k)

\* a condition that always selects std::uninitialized_move_n
AlwaysMove == TRUE

\* a condition that always selects std::uninitialized_copy_n
AlwaysCopy == FALSE

\* std::is_nothrow_move_constructible_v<T> || !std::is_copy_constructible_v<T>
NothrowMoveOrNoCopy == T.nothrow_move_constructible \/ ~T.copy_constructible

\* Vector::UninitializedCopyMove
UninitializedCopyMove(h, from, fi, n, to, ti) ==
    IF NothrowMoveOrNoCopy
    THEN UninitializedMoveN(h, from, fi, n, to, ti)
    ELSE UninitializedCopyN(h, from, fi, n, to, ti)

\* Vector::UninitializedCopyMove when the construction of element k throws
UninitializedCopyMoveThrows(h, from, fi, n, to, ti, k) ==
    IF NothrowMoveOrNoCopy
    THEN UninitializedMoveNThrows(h, from, fi, n, to, ti, k)
    ELSE UninitializedCopyNThrows(h, from, fi, n, to, ti, k)

\* the copy constructor of T can throw
CopyThrows == ~T.trivial /\ T.copy_constructible

\* the move constructor of T can throw
MoveThrows == ~T.nothrow_move_constructible

\* the constructor Vector::UninitializedCopyMove uses can throw
RelocationThrows == IF NothrowMoveOrNoCopy THEN MoveThrows ELSE CopyThrows

\* std::move(buf + first, buf + last, buf + dfirst): first element first
RECURSIVE MoveForward(_, _, _, _, _)
MoveForward(h, buf, first, last, dfirst) ==
    IF first >= last THEN h
    ELSE MoveForward(AssignAt(h, buf, dfirst, h[buf].mem[first + 1]),
                     buf, first + 1, last, dfirst + 1)

\* a move_backward that copies first element first (std::move into the range)
MoveBackwardFirstFirst(h, buf, first, last, dlast) ==
    MoveForward(h, buf, first, last, dlast - (last - first))

\* std::move_backward(buf + first, buf + last, buf + dlast): last element first
RECURSIVE MoveBackward(_, _, _, _, _)
MoveBackward(h, buf, first, last, dlast) ==
    IF first >= last THEN h
    ELSE MoveBackward(AssignAt(h, buf, dlast - 1, h[buf].mem[last]),
                      buf, first, last - 1, dlast - 1)

\* ------------------------------------------------------------ observers
\* Vector::Size
Size(v) == size_[v]

\* Vector::Capacity
Capacity(v) == capacity_[v]

\* the sequence read through operator[] at indices 0 .. Size() - 1
Elems(v) == IF size_[v] = 0 THEN <<>> ELSE SubSeq(heap[buffer_[v]].mem, 1, size_[v])

\* a growth policy that adds one slot
GrownByOne(size) == size + 1

\* a growth policy that adds half of the size
GrownHalfAgain(size) == IF size = 0 THEN 1 ELSE size + (size + 1) \div 2

\* growth policy of PushBack / EmplaceBack / Emplace
GrownCapacity(size) == IF size = 0 THEN 1 ELSE 2 * size

\* --------------------------------------------------------------- Vector
\* RawMemory::Swap of v.data_ with a local arena, followed by the local's
\* destructor: v adopts (buf, cap), the block v held is released
AdoptArena(v, h, buf, cap) ==
    /\ heap' = Deallocate(h, buffer_[v])
    /\ buffer_' = [buffer_ EXCEPT ![v] = buf]
    /\ capacity_' = [capacity_ EXCEPT ![v] = cap]

\* Vector() noexcept = default
DefaultCtor(v) ==
    /\ ~alive[v]
    /\ alive' = [alive EXCEPT ![v] = TRUE]
    /\ buffer_' = [buffer_ EXCEPT ![v] = NullPtr]
    /\ capacity_' = [capacity_ EXCEPT ![v] = 0]
    /\ size_' = [size_ EXCEPT ![v] = 0]
    /\ UNCHANGED heap

\* a value construction that stops one element short
UninitializedValueConstructButLast(h, buf, n) ==
    IF n = 0 THEN h
    ELSE [h EXCEPT ![buf].mem =
            [j \in 1 .. Len(@) |-> IF j < n THEN Constructed(@[j], Default) ELSE @[j]]]

\* std::uninitialized_value_construct_n(buf, n)
UninitializedValueConstructN(h, buf, n) ==
    IF n = 0 THEN h
    ELSE [h EXCEPT ![buf].mem =
            [j \in 1 .. Len(@) |-> IF j <= n THEN Constructed(@[j], Default) ELSE @[j]]]

\* explicit Vector(size_t size)
SizeCtor(v, size) ==
    /\ ~alive[v]
    /\ alive' = [alive EXCEPT ![v] = TRUE]
    /\ buffer_' = [buffer_ EXCEPT ![v] = Allocate(heap, size)]
    /\ capacity_' = [capacity_ EXCEPT ![v] = size]
    /\ size_' = [size_ EXCEPT ![v] = size]
    /\ heap' = UninitializedValueConstructN(RawMemory(heap, size), Allocate(heap, size), size)

\* a copy constructor that copies the pointer instead of the elements
CopyCtorShallow(v, other) ==
    /\ ~alive[v]
    /\ alive[other]
    /\ alive' = [alive EXCEPT ![v] = TRUE]
    /\ buffer_' = [buffer_ EXCEPT ![v] = buffer_[other]]
    /\ capacity_' = [capacity_ EXCEPT ![v] = size_[other]]
    /\ size_' = [size_ EXCEPT ![v] = size_[other]]
    /\ UNCHANGED heap

\* explicit Vector(const Vector& other)
CopyCtor(v, other) ==
    /\ ~alive[v]
    /\ alive[other]
    /\ alive' = [alive EXCEPT ![v] = TRUE]
    /\ buffer_' = [buffer_ EXCEPT ![v] = Allocate(heap, size_[other])]
    /\ capacity_' = [capacity_ EXCEPT ![v] = size_[other]]
    /\ size_' = [size_ EXCEPT ![v] = size_[other]]
    /\ heap' = UninitializedCopyN(RawMemory(heap, size_[other]), buffer_[other], 0,
                                  size_[other], Allocate(heap, size_[other]), 0)

\* ~Vector followed by ~RawMemory of its data_ member, on the fields (buf, size)
DestructorBody(h, buf, size) == Deallocate(DestroyN(h, buf, 0, size), buf)

\* a move constructor that copies the three fields and leaves other as it was
MoveCtorShares(v, other) ==
    /\ ~alive[v]
    /\ alive[other]
    /\ alive' = [alive EXCEPT ![v] = TRUE]
    /\ buffer_' = [buffer_ EXCEPT ![v] = buffer_[other]]
    /\ capacity_' = [capacity_ EXCEPT ![v] = capacity_[other]]
    /\ size_' = [size_ EXCEPT ![v] = size_[other]]
    /\ UNCHANGED heap

\* Vector(Vector&& other) noexcept: Swap(other); other.~Vector<T>().  The
\* explicit destructor call runs on the fields Swap left in other; other
\* stays in scope and is destroyed a second time by Destructor(other).
MoveCtor(v, other) ==
    /\ ~alive[v]
    /\ alive[other]
    /\ alive' = [alive EXCEPT ![v] = TRUE]
    \* v starts as (nullptr, 0, 0); Swap(other) exchanges the three fields
    /\ buffer_' = [buffer_ EXCEPT ![v] = buffer_[other], ![other] = NullPtr]
    /\ capacity_' = [capacity_ EXCEPT ![v] = capacity_[other], ![other] = 0]
    /\ size_' = [size_ EXCEPT ![v] = size_[other], ![other] = 0]
    \* other.~Vector<T>() runs on what other now holds: (nullptr, 0, 0)
    /\ heap' = DestructorBody(heap, NullPtr, 0)

\* ~Vector at the end of the object's scope
Destructor(v) ==
    /\ alive[v]
    /\ alive' = [alive EXCEPT ![v] = FALSE]
    /\ heap' = DestructorBody(heap, buffer_[v], size_[v])
    /\ buffer_' = [buffer_ EXCEPT ![v] = NullPtr]
    /\ capacity_' = [capacity_ EXCEPT ![v] = 0]
    /\ size_' = [size_ EXCEPT ![v] = 0]

\* the heap after the body of Reserve when new_capacity > Capacity().
\* std::destroy_n(data_.GetAddress(), data_.Capacity()) runs over all Capacity()
\* slots of the old block, the raw slots [size_, Capacity()) included, and the
\* old block is released right after.
ReserveHeap(v, new_capacity) ==
    LET new_data == Allocate(heap, new_capacity)
        h1 == RawMemory(heap, new_capacity)
        h2 == UninitializedCopyMove(h1, buffer_[v], 0, size_[v], new_data, 0)
        h3 == DestroyN(h2, buffer_[v], 0, capacity_[v])
    IN  Deallocate(h3, buffer_[v])

\* a Reserve that also reallocates when new_capacity == Capacity()
ReserveWhenEqual(v, new_capacity) ==
    /\ alive[v]
    /\ IF new_capacity >= capacity_[v] /\ new_capacity > 0
       THEN /\ heap' = ReserveHeap(v, new_capacity)
            /\ buffer_' = [buffer_ EXCEPT ![v] = Allocate(heap, new_capacity)]
            /\ capacity_' = [capacity_ EXCEPT ![v] = new_capacity]
       ELSE UNCHANGED <<heap, buffer_, capacity_>>
    /\ UNCHANGED <<alive, size_>>

\* void Reserve(size_t new_capacity)
Reserve(v, new_capacity) ==
    /\ alive[v]
    /\ IF new_capacity > capacity_[v]
       THEN /\ heap' = ReserveHeap(v, new_capacity)
            /\ buffer_' = [buffer_ EXCEPT ![v] = Allocate(heap, new_capacity)]
            /\ capacity_' = [capacity_ EXCEPT ![v] = new_capacity]
       ELSE UNCHANGED <<heap, buffer_, capacity_>>
    /\ UNCHANGED <<alive, size_>>

\* the values default-initialisation can leave in the slots first .. last:
\* indeterminate for the integer-like type (no initialisation is performed),
\* T() for a class type
DefaultInitialized(first, last) ==
    IF T.trivial THEN [first .. last -> Values] ELSE {[i \in first .. last |-> Default]}

\* std::uninitialized_default_construct_n(buf + first, n): the new element in
\* slot i holds fill[i]
UninitializedDefaultConstructN(h, buf, first, n, fill) ==
    IF n = 0 THEN h
    ELSE [h EXCEPT ![buf].mem =
            [j \in 1 .. Len(@) |->
                IF j - 1 >= first /\ j - 1 < first + n
                THEN Constructed(@[j], fill[j - 1]) ELSE @[j]]]

\* void Resize(size_t new_size)
Resize(v, new_size) ==
    /\ alive[v]
    /\ IF size_[v] > new_size
       THEN /\ heap' = DestroyN(heap, buffer_[v], new_size, size_[v] - new_size)
            /\ size_' = [size_ EXCEPT ![v] = new_size]
            /\ UNCHANGED <<buffer_, capacity_>>
       ELSE IF new_size > size_[v]
       THEN \E fill \in DefaultInitialized(size_[v], new_size - 1) :
            LET grow == capacity_[v] < new_size
                buf == IF grow THEN Allocate(heap, new_size) ELSE buffer_[v]
                h1 == IF grow THEN ReserveHeap(v, new_size) ELSE heap
            IN  /\ heap' = UninitializedDefaultConstructN(h1, buf, size_[v],
                                                          new_size - size_[v], fill)
                /\ buffer_' = [buffer_ EXCEPT ![v] = buf]
                /\ capacity_' = [capacity_ EXCEPT ![v] = IF grow THEN new_size ELSE @]
                /\ size_' = [size_ EXCEPT ![v] = new_size]
       ELSE UNCHANGED <<heap, buffer_, capacity_, size_>>
    /\ UNCHANGED alive

\* the body shared by PushBack(const T&), PushBack(T&&) and EmplaceBack
\* (the three are the same statements up to how the new element is built)
PushBody(v, value) ==
    /\ IF size_[v] = capacity_[v]
       THEN LET n == GrownCapacity(size_[v])
                temp == Allocate(heap, n)
                h1 == ConstructAt(RawMemory(heap, n), temp, size_[v], value)
                h2 == UninitializedCopyMove(h1, buffer_[v], 0, size_[v], temp, 0)
                h3 == DestroyN(h2, buffer_[v], 0, size_[v])
            IN  AdoptArena(v, h3, temp, n)
       ELSE /\ heap' = ConstructAt(heap, buffer_[v], size_[v], value)
            /\ UNCHANGED <<buffer_, capacity_>>
    /\ size_' = [size_ EXCEPT ![v] = @ + 1]
    /\ UNCHANGED alive

\* void PushBack(const T& value)
PushBack(v, value) ==
    /\ alive[v]
    /\ PushBody(v, value)

\* void PushBack(T&& value)
PushBackMove(v, value) ==
    /\ alive[v]
    /\ PushBody(v, value)

\* T& EmplaceBack(Args&&... args); returns *(data_ + size_ - 1)
EmplaceBack(v, value) ==
    /\ alive[v]
    /\ PushBody(v, value)

\* PushBack(v[index]): value is a reference to data_[index]; it is read by the
\* first statement of either branch (T(value)), before anything is relocated
PushBackElement(v, index) ==
    /\ alive[v]
    /\ index \in 0 .. size_[v] - 1
    /\ PushBody(v, heap[buffer_[v]].mem[index + 1])

\* void PopBack(); precondition size_ > 0
PopBack(v) ==
    /\ alive[v]
    /\ size_[v] > 0
    /\ heap' = DestroyN(heap, buffer_[v], size_[v] - 1, 1)
    /\ size_' = [size_ EXCEPT ![v] = @ - 1]
    /\ UNCHANGED <<alive, buffer_, capacity_>>

\* the in-place branch of Emplace (Capacity() > size_): the heap afterwards
EmplaceInPlace(v, position, value) ==
    IF position = size_[v]
    THEN ConstructAt(heap, buffer_[v], position, value)
    ELSE LET h1 == ConstructAt(heap, buffer_[v], size_[v],
                               heap[buffer_[v]].mem[size_[v]])
             h2 == MoveBackward(h1, buffer_[v], position, size_[v] - 1, size_[v])
         IN  AssignAt(h2, buffer_[v], position, value)

\* the growth branch of Emplace: the heap before data_.Swap(temp)
EmplaceGrow(v, position, value) ==
    LET n == GrownCapacity(size_[v])
        temp == Allocate(heap, n)
        h1 == ConstructAt(RawMemory(heap, n), temp, position, value)
        h2 == UninitializedCopyMove(h1, buffer_[v], 0, position, temp, 0)
        h3 == UninitializedCopyMove(h2, buffer_[v], position, size_[v] - position,
                                    temp, position + 1)
    IN  DestroyN(h3, buffer_[v], 0, size_[v])

\* iterator Emplace(const_iterator pos, Args&&... args), position = pos - cbegin()
\* in [0, size_]; returns begin() + position
EmplaceBody(v, position, value) ==
    /\ alive[v]
    /\ position \in 0 .. size_[v]
    /\ IF capacity_[v] > size_[v]
       THEN /\ heap' = EmplaceInPlace(v, position, value)
            /\ UNCHANGED <<buffer_, capacity_>>
       ELSE AdoptArena(v, EmplaceGrow(v, position, value),
                       Allocate(heap, GrownCapacity(size_[v])), GrownCapacity(size_[v]))
    /\ size_' = [size_ EXCEPT ![v] = @ + 1]
    /\ UNCHANGED alive

Emplace(v, position, value) ==
    /\ EmplaceBody(v, position, value)

\* iterator Insert(const_iterator pos, const T& value): Emplace(pos, value)
Insert(v, position, value) ==
    /\ EmplaceBody(v, position, value)

\* the in-place branch of Emplace when args is a reference to data_[index]:
\* T(args) is evaluated in the last statement, after the elements at and after
\* position were shifted, and reads what slot index holds by then
EmplaceInPlaceElement(v, position, index) ==
    IF position = size_[v]
    THEN ConstructAt(heap, buffer_[v], position, heap[buffer_[v]].mem[index + 1])
    ELSE LET h1 == ConstructAt(heap, buffer_[v], size_[v],
                               heap[buffer_[v]].mem[size_[v]])
             h2 == MoveBackward(h1, buffer_[v], position, size_[v] - 1, size_[v])
         IN  AssignAt(h2, buffer_[v], position, h2[buffer_[v]].mem[index + 1])

\* Insert(pos, v[index]): Emplace(pos, value) with value a reference to
\* data_[index]; the growth branch reads it in its first statement after the
\* allocation, from the old block
InsertElement(v, position, index) ==
    /\ alive[v]
    /\ position \in 0 .. size_[v]
    /\ index \in 0 .. size_[v] - 1
    /\ IF capacity_[v] > size_[v]
       THEN /\ heap' = EmplaceInPlaceElement(v, position, index)
            /\ UNCHANGED <<buffer_, capacity_>>
       ELSE AdoptArena(v, EmplaceGrow(v, position, heap[buffer_[v]].mem[index + 1]),
                       Allocate(heap, GrownCapacity(size_[v])), GrownCapacity(size_[v]))
    /\ size_' = [size_ EXCEPT ![v] = @ + 1]
    /\ UNCHANGED alive

\* iterator Insert(const_iterator pos, T&& value): Emplace(pos, std::move(value))
InsertMove(v, position, value) ==
    /\ EmplaceBody(v, position, value)

\* an Erase whose shift starts at pos instead of pos + 1
EraseShiftFromPos(v, position) ==
    /\ alive[v]
    /\ position \in 0 .. (size_[v] - 1)
    /\ heap' = DestroyN(MoveForward(heap, buffer_[v], position, size_[v], position),
                        buffer_[v], size_[v] - 1, 1)
    /\ size_' = [size_ EXCEPT ![v] = @ - 1]
    /\ UNCHANGED <<alive, buffer_, capacity_>>

\* iterator Erase(const_iterator pos), position = pos - cbegin() in [0, size_)
Erase(v, position) ==
    /\ alive[v]
    /\ position \in 0 .. (size_[v] - 1)
    /\ heap' = DestroyN(MoveForward(heap, buffer_[v], position + 1, size_[v], position),
                        buffer_[v], size_[v] - 1, 1)
    /\ size_' = [size_ EXCEPT ![v] = @ - 1]
    /\ UNCHANGED <<alive, buffer_, capacity_>>

\* v[index] = value through T& operator[](size_t index); precondition index < size_
SetAt(v, index, value) ==
    /\ alive[v]
    /\ index \in 0 .. (size_[v] - 1)
    /\ heap' = AssignAt(heap, buffer_[v], index, value)
    /\ UNCHANGED <<alive, buffer_, capacity_, size_>>

\* the loop  for (i = 0; i < n; ++i) data_[i] = rhs.data_[i]
RECURSIVE AssignPrefix(_, _, _, _, _)
AssignPrefix(h, to, from, i, n) ==
    IF i >= n THEN h
    ELSE AssignPrefix(AssignAt(h, to, i, h[from].mem[i + 1]), to, from, i + 1, n)

\* a copy-assignment that always builds a temporary copy and swaps it in
CopyAssignBySwap(v, rhs) ==
    /\ alive[v] /\ alive[rhs]
    /\ IF v # rhs
       THEN LET temp == Allocate(heap, size_[rhs])
                h1 == UninitializedCopyN(RawMemory(heap, size_[rhs]), buffer_[rhs], 0,
                                         size_[rhs], temp, 0)
            IN  /\ heap' = Deallocate(DestroyN(h1, buffer_[v], 0, size_[v]), buffer_[v])
                /\ buffer_' = [buffer_ EXCEPT ![v] = temp]
                /\ capacity_' = [capacity_ EXCEPT ![v] = size_[rhs]]
                /\ size_' = [size_ EXCEPT ![v] = size_[rhs]]
       ELSE UNCHANGED <<heap, buffer_, capacity_, size_>>
    /\ UNCHANGED alive

\* Vector& operator=(const Vector& rhs)
CopyAssign(v, rhs) ==
    /\ alive[v] /\ alive[rhs]
    /\ IF v # rhs
       THEN IF capacity_[v] >= size_[rhs]
            THEN /\ IF size_[v] > size_[rhs]
                    THEN heap' = DestroyN(AssignPrefix(heap, buffer_[v], buffer_[rhs], 0, size_[rhs]),
                                          buffer_[v], size_[rhs], size_[v] - size_[rhs])
                    ELSE heap' = UninitializedCopyN(
                                    AssignPrefix(heap, buffer_[v], buffer_[rhs], 0, size_[v]),
                                    buffer_[rhs], size_[v], size_[rhs] - size_[v],
                                    buffer_[v], size_[v])
                 /\ size_' = [size_ EXCEPT ![v] = size_[rhs]]
                 /\ UNCHANGED <<buffer_, capacity_>>
            ELSE \* Vector<T> temp(rhs); Swap(temp); then ~temp on v's old fields
                 LET temp == Allocate(heap, size_[rhs])
                     h1 == UninitializedCopyN(RawMemory(heap, size_[rhs]), buffer_[rhs], 0,
                                              size_[rhs], temp, 0)
                 IN  /\ heap' = DestructorBody(h1, buffer_[v], size_[v])
                     /\ buffer_' = [buffer_ EXCEPT ![v] = temp]
                     /\ capacity_' = [capacity_ EXCEPT ![v] = size_[rhs]]
                     /\ size_' = [size_ EXCEPT ![v] = size_[rhs]]
       ELSE UNCHANGED <<heap, buffer_, capacity_, size_>>
    /\ UNCHANGED alive

\* a Swap that forgets std::swap(size_, other.size_)
SwapFieldsNoSize(v, other) ==
    /\ buffer_' = [buffer_ EXCEPT ![v] = buffer_[other], ![other] = buffer_[v]]
    /\ capacity_' = [capacity_ EXCEPT ![v] = capacity_[other], ![other] = capacity_[v]]
    /\ UNCHANGED <<size_, heap>>

\* void Swap(Vector& other): data_.Swap(other.data_); std::swap(size_, other.size_)
SwapFields(v, other) ==
    /\ buffer_' = [buffer_ EXCEPT ![v] = buffer_[other], ![other] = buffer_[v]]
    /\ capacity_' = [capacity_ EXCEPT ![v] = capacity_[other], ![other] = capacity_[v]]
    /\ size_' = [size_ EXCEPT ![v] = size_[other], ![other] = size_[v]]
    /\ UNCHANGED heap

Swap(v, other) ==
    /\ alive[v] /\ alive[other]
    /\ SwapFields(v, other)
    /\ UNCHANGED alive

\* a move-assignment that releases its own elements and block, takes those of
\* rhs and leaves rhs empty
MoveAssignSteal(v, rhs) ==
    /\ alive[v] /\ alive[rhs]
    /\ IF v # rhs
       THEN /\ heap' = DestructorBody(heap, buffer_[v], size_[v])
            /\ buffer_' = [buffer_ EXCEPT ![v] = buffer_[rhs], ![rhs] = NullPtr]
            /\ capacity_' = [capacity_ EXCEPT ![v] = capacity_[rhs], ![rhs] = 0]
            /\ size_' = [size_ EXCEPT ![v] = size_[rhs], ![rhs] = 0]
       ELSE UNCHANGED <<heap, buffer_, capacity_, size_>>
    /\ UNCHANGED alive

\* Vector& operator=(Vector&& rhs) noexcept
MoveAssign(v, rhs) ==
    /\ alive[v] /\ alive[rhs]
    /\ IF v # rhs
       THEN SwapFields(v, rhs)
       ELSE UNCHANGED <<heap, buffer_, capacity_, size_>>
    /\ UNCHANGED alive

\* ------------------------------------------------------ exception paths
\* where an exception leaves a call: operator new in RawMemory::Allocate
\* (BadAlloc), the constructor of the new element (NewElement), or the
\* constructor of the element at index k >= 0 that UninitializedCopyMove or
\* the copy constructor of Vector builds; NoFault for a call that returns
NoFault == -3
BadAlloc == -2
NewElement == -1

\* the body shared by PushBack(const T&), PushBack(T&&) and EmplaceBack when
\* an exception leaves it: the local arena temp is released by ~RawMemory,
\* which destroys no element; size_ and data_ are not reached
PushBodyThrows(v, value, fault) ==
    /\ alive[v]
    /\ IF size_[v] = capacity_[v]
       THEN LET n == GrownCapacity(size_[v])
                temp == Allocate(heap, n)
                h1 == ConstructAt(RawMemory(heap, n), temp, size_[v], value)
            IN  \/ /\ fault = BadAlloc
                   /\ heap' = heap
                \/ /\ fault = NewElement
                   /\ heap' = Deallocate(RawMemory(heap, n), temp)
                \/ /\ fault \in 0 .. (size_[v] - 1)
                   /\ RelocationThrows
                   /\ heap' = Deallocate(
                                UninitializedCopyMoveThrows(h1, buffer_[v], 0, size_[v],
                                                            temp, 0, fault), temp)
       ELSE /\ fault = NewElement
            /\ heap' = heap
    /\ UNCHANGED <<alive, buffer_, capacity_, size_>>

\* PushBack(const T& value) left by an exception; T(value) is a copy
PushBackThrows(v, value, fault) ==
    /\ fault = NewElement => CopyThrows
    /\ PushBodyThrows(v, value, fault)

\* PushBack(T&& value) left by an exception; T(std::move(value)) is a move
PushBackMoveThrows(v, value, fault) ==
    /\ fault = NewElement => MoveThrows
    /\ PushBodyThrows(v, value, fault)

\* EmplaceBack(args...) left by an exception; T(args...) is any constructor
EmplaceBackThrows(v, value, fault) ==
    /\ fault = NewElement => ~T.trivial
    /\ PushBodyThrows(v, value, fault)

\* Emplace / Insert left by an exception, on the paths without shifting: in
\* place at the end (Capacity() > size_, position == size_) and the growth
\* path, where the prefix [0, position) and the suffix [position, size_) are
\* built by two calls of UninitializedCopyMove
EmplaceBodyThrows(v, position, value, fault) ==
    /\ alive[v]
    /\ position \in 0 .. size_[v]
    /\ IF capacity_[v] > size_[v]
       THEN /\ position = size_[v]
            /\ fault = NewElement
            /\ heap' = heap
       ELSE LET n == GrownCapacity(size_[v])
                temp == Allocate(heap, n)
                h1 == ConstructAt(RawMemory(heap, n), temp, position, value)
                h2 == UninitializedCopyMove(h1, buffer_[v], 0, position, temp, 0)
            IN  \/ /\ fault = BadAlloc
                   /\ heap' = heap
                \/ /\ fault = NewElement
                   /\ heap' = Deallocate(RawMemory(heap, n), temp)
                \/ /\ fault \in 0 .. (position - 1)
                   /\ RelocationThrows
                   /\ heap' = Deallocate(
                                UninitializedCopyMoveThrows(h1, buffer_[v], 0, position,
                                                            temp, 0, fault), temp)
                \/ /\ fault \in position .. (size_[v] - 1)
                   /\ RelocationThrows
                   /\ heap' = Deallocate(
                                UninitializedCopyMoveThrows(h2, buffer_[v], position,
                                                            size_[v] - position, temp,
                                                            position + 1, fault - position),
                                temp)
    /\ UNCHANGED <<alive, buffer_, capacity_, size_>>

\* Insert(pos, const T& value) left by an exception
InsertThrows(v, position, value, fault) ==
    /\ fault = NewElement => CopyThrows
    /\ EmplaceBodyThrows(v, position, value, fault)

\* Insert(pos, T&& value) left by an exception
InsertMoveThrows(v, position, value, fault) ==
    /\ fault = NewElement => MoveThrows
    /\ EmplaceBodyThrows(v, position, value, fault)

\* Emplace(pos, args...) left by an exception
EmplaceThrows(v, position, value, fault) ==
    /\ fault = NewElement => ~T.trivial
    /\ EmplaceBodyThrows(v, position, value, fault)

\* Reserve(new_capacity) left by an exception: new_data is released by
\* ~RawMemory; std::destroy_n and data_.Swap are not reached
ReserveThrows(v, new_capacity, fault) ==
    /\ alive[v]
    /\ new_capacity > capacity_[v]
    /\ \/ /\ fault = BadAlloc
          /\ heap' = heap
       \/ /\ fault \in 0 .. (size_[v] - 1)
          /\ RelocationThrows
          /\ heap' = Deallocate(
                        UninitializedCopyMoveThrows(RawMemory(heap, new_capacity),
                                                    buffer_[v], 0, size_[v],
                                                    Allocate(heap, new_capacity), 0, fault),
                        Allocate(heap, new_capacity))
    /\ UNCHANGED <<alive, buffer_, capacity_, size_>>

\* a Resize that stores size_ = new_size before it calls Reserve
ResizeSizeFirstThrows(v, new_size, fault) ==
    /\ new_size > size_[v]
    /\ alive[v]
    /\ new_size > capacity_[v]
    /\ \/ /\ fault = BadAlloc
          /\ heap' = heap
       \/ /\ fault \in 0 .. (size_[v] - 1)
          /\ RelocationThrows
          /\ heap' = Deallocate(
                        UninitializedCopyMoveThrows(RawMemory(heap, new_size),
                                                    buffer_[v], 0, size_[v],
                                                    Allocate(heap, new_size), 0, fault),
                        Allocate(heap, new_size))
    /\ size_' = [size_ EXCEPT ![v] = new_size]
    /\ UNCHANGED <<alive, buffer_, capacity_>>

\* Resize(new_size) left by an exception of its call Reserve(new_size):
\* std::uninitialized_default_construct_n and size_ = new_size are not reached
ResizeThrows(v, new_size, fault) ==
    /\ new_size > size_[v]
    /\ ReserveThrows(v, new_size, fault)

\* operator=(const Vector& rhs) left by an exception of Vector<T> temp(rhs):
\* the copy constructor's data_ is released by ~RawMemory, Swap(temp) is not
\* reached
CopyAssignThrows(v, rhs, fault) ==
    /\ alive[v] /\ alive[rhs]
    /\ v # rhs
    /\ capacity_[v] < size_[rhs]
    /\ \/ /\ fault = BadAlloc
          /\ heap' = heap
       \/ /\ fault \in 0 .. (size_[rhs] - 1)
          /\ CopyThrows
          /\ heap' = Deallocate(
                        UninitializedCopyNThrows(RawMemory(heap, size_[rhs]),
                                                 buffer_[rhs], 0, size_[rhs],
                                                 Allocate(heap, size_[rhs]), 0, fault),
                        Allocate(heap, size_[rhs]))
    /\ UNCHANGED <<alive, buffer_, capacity_, size_>>

\* iterator returned by Emplace: begin() + position, as an index
EmplaceReturn(position) == position

\* ------------------------------------------------------- specifications
\* one default-constructed vector a; b is not constructed yet
Start ==
    /\ alive = [v \in Vecs |-> v = "a"]
    /\ buffer_ = [v \in Vecs |-> NullPtr]
    /\ capacity_ = [v \in Vecs |-> 0]
    /\ size_ = [v \in Vecs |-> 0]
    /\ heap = [b \in 1 .. NBlocks |-> FreeBlock]
    /\ op = [name |-> "Vector", v |-> "a", w |-> "", a |-> 0, x |-> 0, ret |-> 0,
             realloc |-> FALSE, undo |-> FALSE, fault |-> NoFault, index |-> 0]
    /\ saved = <<>>
    /\ pushed = <<>>
    /\ nPush = 0
    /\ nPop = 0
    /\ nRealloc = 0

\* the templates instantiated with the integer-like element type
Init == T = IntLike /\ Start

\* the explored part of the state space: capacities up to limit
Within(limit) == \A v \in Vecs : capacity_[v] <= limit

\* a call on v (and w) in the runs with two vectors: the call's name and objects
Called(name, v, w) ==
    /\ op' = [name |-> name, v |-> v, w |-> w, a |-> 0, x |-> 0, ret |-> 0,
              realloc |-> FALSE, undo |-> FALSE, fault |-> NoFault, index |-> 0]
    /\ Within(MaxCap2)'
    /\ UNCHANGED <<T, saved, ghost>>

\* every operation, on two vectors
Next ==
    \/ \E v \in Vecs : DefaultCtor(v) /\ Called("Vector", v, "")
    \/ \E v \in Vecs, n \in 0 .. MaxCap2 : SizeCtor(v, n) /\ Called("Vector(n)", v, "")
    \/ \E v \in Vecs, w \in Vecs : CopyCtor(v, w) /\ Called("Vector(copy)", v, w)
    \/ \E v \in Vecs, w \in Vecs : MoveCtor(v, w) /\ Called("Vector(move)", v, w)
    \/ \E v \in Vecs : Destructor(v) /\ Called("~Vector", v, "")
    \/ \E v \in Vecs, x \in Values : PushBack(v, x) /\ Called("PushBack", v, "")
    \/ \E v \in Vecs, x \in Values : PushBackMove(v, x) /\ Called("PushBack&&", v, "")
    \/ \E v \in Vecs, x \in Values : EmplaceBack(v, x) /\ Called("EmplaceBack", v, "")
    \/ \E v \in Vecs : PopBack(v) /\ Called("PopBack", v, "")
    \/ \E v \in Vecs, p \in 0 .. MaxCap2, x \in Values :
            Insert(v, p, x) /\ Called("Insert", v, "")
    \/ \E v \in Vecs, p \in 0 .. MaxCap2, x \in Values :
            InsertMove(v, p, x) /\ Called("Insert&&", v, "")
    \/ \E v \in Vecs, p \in 0 .. MaxCap2, x \in Values :
            Emplace(v, p, x) /\ Called("Emplace", v, "")
    \/ \E v \in Vecs, p \in 0 .. MaxCap2 : Erase(v, p) /\ Called("Erase", v, "")
    \/ \E v \in Vecs, n \in 0 .. MaxCap2 : Reserve(v, n) /\ Called("Reserve", v, "")
    \/ \E v \in Vecs, n \in 0 .. MaxCap2 : Resize(v, n) /\ Called("Resize", v, "")
    \/ \E v \in Vecs, i \in 0 .. MaxCap2, x \in Values :
            SetAt(v, i, x) /\ Called("operator[]", v, "")
    \/ \E v \in Vecs, w \in Vecs : CopyAssign(v, w) /\ Called("operator=", v, w)
    \/ \E v \in Vecs, w \in Vecs : MoveAssign(v, w) /\ Called("operator=&&", v, w)
    \/ \E v \in Vecs, w \in Vecs : Swap(v, w) /\ Called("Swap", v, w)

Spec == Init /\ [][Next]_vars

\* a call on the vector a in the runs with one vector: the call's name, its
\* numeric argument, its value argument, the index it returns, whether the
\* vector's block was replaced, and whether the call is an Erase at the position
\* of the Insert/Emplace call right before it
CalledOne(name, a, x, ret) ==
    LET undo == name = "Erase" /\ op.name \in InsertCalls /\ op.a = a
    IN  /\ op' = [name |-> name, v |-> "a", w |-> "", a |-> a, x |-> x, ret |-> ret,
                  realloc |-> buffer_'["a"] # buffer_["a"], undo |-> undo,
                  fault |-> NoFault, index |-> 0]
        /\ saved' = IF name \in InsertCalls THEN Elems("a")
                    ELSE IF undo THEN saved ELSE <<>>
        /\ Within(MaxCap)'
        /\ UNCHANGED <<T, ghost>>

\* the operations of one vector, to larger capacities
NextOne ==
    \/ DefaultCtor("a") /\ CalledOne("Vector", 0, 0, 0)
    \/ \E n \in 0 .. MaxCap : SizeCtor("a", n) /\ CalledOne("Vector(n)", n, 0, 0)
    \/ Destructor("a") /\ CalledOne("~Vector", 0, 0, 0)
    \/ \E x \in Values : PushBack("a", x) /\ CalledOne("PushBack", 0, x, 0)
    \/ \E x \in Values : PushBackMove("a", x) /\ CalledOne("PushBack&&", 0, x, 0)
    \/ \E x \in Values : EmplaceBack("a", x) /\ CalledOne("EmplaceBack", 0, x, 0)
    \/ PopBack("a") /\ CalledOne("PopBack", 0, 0, 0)
    \/ \E p \in 0 .. MaxCap, x \in Values :
            Insert("a", p, x) /\ CalledOne("Insert", p, x, EmplaceReturn(p))
    \/ \E p \in 0 .. MaxCap, x \in Values :
            InsertMove("a", p, x) /\ CalledOne("Insert&&", p, x, EmplaceReturn(p))
    \/ \E p \in 0 .. MaxCap, x \in Values :
            Emplace("a", p, x) /\ CalledOne("Emplace", p, x, EmplaceReturn(p))
    \/ \E p \in 0 .. MaxCap : Erase("a", p) /\ CalledOne("Erase", p, 0, 0)
    \/ \E n \in 0 .. MaxCap : Reserve("a", n) /\ CalledOne("Reserve", n, 0, 0)
    \/ \E n \in 0 .. MaxCap : Resize("a", n) /\ CalledOne("Resize", n, 0, 0)
    \/ \E i \in 0 .. MaxCap, x \in Values :
            SetAt("a", i, x) /\ CalledOne("operator[]", i, x, 0)

SpecOne == Init /\ [][NextOne]_vars

\* sequences of PushBack and PopBack on an initially empty vector, with the
\* list of values a stack of the same calls would hold
CalledPushPop(name, x) ==
    /\ op' = [name |-> name, v |-> "a", w |-> "", a |-> 0, x |-> x, ret |-> 0,
              realloc |-> buffer_'["a"] # buffer_["a"], undo |-> FALSE,
              fault |-> NoFault, index |-> 0]
    /\ UNCHANGED <<T, alive, saved>>

NextPushPop ==
    \/ \E x \in Values :
            /\ nPush < MaxOps
            /\ PushBack("a", x)
            /\ CalledPushPop("PushBack", x)
            /\ pushed' = Append(pushed, x)
            /\ nPush' = nPush + 1
            /\ UNCHANGED <<nPop, nRealloc>>
    \/ \E x \in Values :
            /\ nPush < MaxOps
            /\ PushBackMove("a", x)
            /\ CalledPushPop("PushBack&&", x)
            /\ pushed' = Append(pushed, x)
            /\ nPush' = nPush + 1
            /\ UNCHANGED <<nPop, nRealloc>>
    \/ /\ PopBack("a")
       /\ CalledPushPop("PopBack", 0)
       /\ pushed' = SubSeq(pushed, 1, Len(pushed) - 1)
       /\ nPop' = nPop + 1
       /\ UNCHANGED <<nPush, nRealloc>>

SpecPushPop == Init /\ [][NextPushPop]_vars

\* consecutive PushBack calls on an initially empty vector, with the number of
\* calls that replaced the block (data_.Swap(temp) with a newly allocated temp)
NextGrow ==
    \/ \E x \in Values :
            /\ nPush < MaxOps
            /\ PushBack("a", x)
            /\ CalledPushPop("PushBack", x)
            /\ pushed' = Append(pushed, x)
            /\ nPush' = nPush + 1
            /\ nRealloc' = nRealloc + IF buffer_'["a"] # buffer_["a"] THEN 1 ELSE 0
            /\ UNCHANGED nPop
    \/ \E x \in Values :
            /\ nPush < MaxOps
            /\ PushBackMove("a", x)
            /\ CalledPushPop("PushBack&&", x)
            /\ pushed' = Append(pushed, x)
            /\ nPush' = nPush + 1
            /\ nRealloc' = nRealloc + IF buffer_'["a"] # buffer_["a"] THEN 1 ELSE 0
            /\ UNCHANGED nPop

SpecGrow == Init /\ [][NextGrow]_vars

\* a call on the vector a whose value argument is a reference to the element
\* a[index]: the call's name, its position argument, the value a[index] held
\* when the call was made, whether the block was replaced, the index, and the
\* elements before the call
CalledElement(name, position, index) ==
    /\ op' = [name |-> name, v |-> "a", w |-> "", a |-> position,
              x |-> Elems("a")[index + 1], ret |-> EmplaceReturn(position),
              realloc |-> buffer_'["a"] # buffer_["a"], undo |-> FALSE,
              fault |-> NoFault, index |-> index]
    /\ saved' = Elems("a")
    /\ Within(MaxCap)'
    /\ UNCHANGED <<T, ghost>>

\* one vector, with PushBack and Insert called on references to its own elements
NextElement ==
    \/ \E x \in Values : PushBack("a", x) /\ CalledOne("PushBack", 0, x, 0)
    \/ PopBack("a") /\ CalledOne("PopBack", 0, 0, 0)
    \/ \E n \in 0 .. MaxCap : Reserve("a", n) /\ CalledOne("Reserve", n, 0, 0)
    \/ \E i \in 0 .. MaxCap :
            PushBackElement("a", i) /\ CalledElement("PushBack(v[i])", size_["a"], i)
    \/ \E p \in 0 .. MaxCap, i \in 0 .. MaxCap :
            InsertElement("a", p, i) /\ CalledElement("Insert(v[i])", p, i)

SpecElement == Init /\ [][NextElement]_vars

\* the templates instantiated with a class type
InitClass == T \in ClassTypes /\ Start

\* the faults a call can be left by
Faults == {BadAlloc, NewElement} \cup (0 .. MaxCap2)

\* a call on v in the runs with a class type: its name, its objects and the
\* fault that left it (NoFault when it returned)
CalledClass(name, v, w, fault) ==
    /\ op' = [name |-> name, v |-> v, w |-> w, a |-> 0, x |-> 0, ret |-> 0,
              realloc |-> FALSE, undo |-> FALSE, fault |-> fault, index |-> 0]
    /\ Within(MaxCap2)'
    /\ UNCHANGED <<T, saved, ghost>>

\* a vector a of class-type elements next to a vector b to assign from: the
\* calls that build the states of a, and every call that can be left by an
\* exception without shifting elements in place
NextClass ==
    \/ \E n \in 0 .. (MaxCap2 + 1) : SizeCtor("b", n) /\ CalledClass("Vector(n)", "b", "", NoFault)
    \/ \E x \in Values : PushBackMove("a", x) /\ CalledClass("PushBack&&", "a", "", NoFault)
    \/ PopBack("a") /\ CalledClass("PopBack", "a", "", NoFault)
    \/ \E n \in 0 .. MaxCap2 : Reserve("a", n) /\ CalledClass("Reserve", "a", "", NoFault)
    \/ CopyAssign("a", "b") /\ T.copy_constructible /\ CalledClass("operator=", "a", "b", NoFault)
    \/ \E f \in Faults :
            PushBackThrows("a", Other, f) /\ T.copy_constructible
                /\ CalledClass("PushBack", "a", "", f)
    \/ \E f \in Faults :
            PushBackMoveThrows("a", Other, f) /\ CalledClass("PushBack&&", "a", "", f)
    \/ \E f \in Faults :
            EmplaceBackThrows("a", Other, f) /\ CalledClass("EmplaceBack", "a", "", f)
    \/ \E p \in 0 .. MaxCap2, f \in Faults :
            InsertThrows("a", p, Other, f) /\ T.copy_constructible
                /\ CalledClass("Insert", "a", "", f)
    \/ \E p \in 0 .. MaxCap2, f \in Faults :
            InsertMoveThrows("a", p, Other, f) /\ CalledClass("Insert&&", "a", "", f)
    \/ \E p \in 0 .. MaxCap2, f \in Faults :
            EmplaceThrows("a", p, Other, f) /\ CalledClass("Emplace", "a", "", f)
    \/ \E n \in 0 .. (MaxCap2 + 1), f \in Faults :
            ReserveThrows("a", n, f) /\ CalledClass("Reserve", "a", "", f)
    \/ \E n \in 0 .. (MaxCap2 + 1), f \in Faults :
            ResizeThrows("a", n, f) /\ CalledClass("Resize", "a", "", f)
    \/ \E f \in Faults :
            CopyAssignThrows("a", "b", f) /\ T.copy_constructible
                /\ CalledClass("operator=", "a", "b", f)

SpecClass == InitClass /\ [][NextClass]_vars

\* ----------------------------------------------------------- properties
\* the block of v holds live elements in exactly the slots [0, size)
LiveExactly(v) ==
    /\ size_[v] <= capacity_[v]
    /\ capacity_[v] > 0 =>
        /\ buffer_[v] # NullPtr
        /\ heap[buffer_[v]].used
        /\ Len(heap[buffer_[v]].mem) = capacity_[v]
        /\ \A i \in 0 .. (capacity_[v] - 1) :
                (heap[buffer_[v]].mem[i + 1] # Raw) <=> (i < size_[v])

\* C1: after any sequence of operations called within their preconditions,
\* every vector has size <= capacity, live elements in exactly the slots
\* [0, size) of its arena, and raw slots in [size, capacity).
C1_SizeCapacityLiveness == \A v \in Vecs : alive[v] => LiveExactly(v)

\* C1 witness: a Reserve has left a vector with live elements followed by raw
\* slots, while the other vector holds elements in a block of its own
C1_Witness ==
    /\ op.name = "Reserve"
    /\ alive["a"] /\ alive["b"]
    /\ size_[op.v] >= 1
    /\ size_[op.v] < capacity_[op.v]
    /\ \E u \in Vecs : u # op.v /\ size_[u] >= 1

\* C2: after any sequence of PushBack and PopBack calls on an initially empty
\* vector (PopBack only with size > 0), Size() is the number of pushes minus
\* the number of pops and indices 0 .. Size()-1 read the pushed values that
\* were not popped, in push order, however many reallocations happened.
C2_PushPopStack ==
    /\ Size("a") = nPush - nPop
    /\ Elems("a") = pushed

\* C2 witness: a PushBack that reallocated, after earlier pops, with both
\* values among the elements
C2_Witness ==
    /\ op.name = "PushBack"
    /\ op.realloc
    /\ nPop >= 2
    /\ Size("a") >= 3
    /\ \E i, j \in 1 .. Len(pushed) : pushed[i] # pushed[j]

Max(m, n) == IF m >= n THEN m ELSE n

\* the calls that need one more slot
GrowingCalls == {"PushBack", "PushBack&&", "EmplaceBack"} \cup InsertCalls

\* C3: a PushBack, EmplaceBack, Insert or Emplace called with size == capacity
\* leaves capacity == max(1, 2 * capacity before); called with size < capacity
\* it leaves the capacity unchanged; also from capacities that are no power of
\* two.
C3_GrowthPolicy ==
    [][op'.name \in GrowingCalls =>
            capacity_'["a"] = IF size_["a"] = capacity_["a"]
                              THEN Max(1, 2 * capacity_["a"])
                              ELSE capacity_["a"]]_vars

\* C3 witness: an Insert grew a full vector of capacity 3 to capacity 6
C3_Witness ==
    /\ op.name = "Insert"
    /\ op.realloc
    /\ capacity_["a"] = 6
    /\ size_["a"] = 4

\* C4: after Reserve(n) the capacity is >= n and size and elements are
\* unchanged; if n exceeded the capacity the new capacity is exactly n; if it
\* did not, nothing changed: capacity, size, the block and every slot of it.
C4_Reserve ==
    [][op'.name = "Reserve" =>
            /\ capacity_'["a"] >= op'.a
            /\ size_'["a"] = size_["a"]
            /\ Elems("a")' = Elems("a")
            /\ op'.a > capacity_["a"] => capacity_'["a"] = op'.a
            /\ op'.a <= capacity_["a"] =>
                    /\ capacity_'["a"] = capacity_["a"]
                    /\ buffer_' = buffer_
                    /\ heap' = heap]_vars

\* C4 witness: a Reserve moved two or more elements, not all equal, to a
\* larger block with room to spare
C4_Witness ==
    /\ op.name = "Reserve"
    /\ op.realloc
    /\ capacity_["a"] = op.a
    /\ size_["a"] >= 2
    /\ size_["a"] < capacity_["a"]
    /\ \E i, j \in 1 .. size_["a"] : Elems("a")[i] # Elems("a")[j]

\* s with x put in front of its element at index p (0-based), or at the end
InsertSeq(s, p, x) == SubSeq(s, 1, p) \o <<x>> \o SubSeq(s, p + 1, Len(s))

\* s without its element at index p (0-based)
RemoveSeq(s, p) == SubSeq(s, 1, p) \o SubSeq(s, p + 2, Len(s))

\* C5: Insert(pos, x) / Emplace(pos, x) with pos in [0, size] and x not an
\* element of the vector yields s[0..pos) ++ [x] ++ s[pos..size), increments
\* size by 1 and returns the position of the new element, on the in-place path
\* and on the growth path alike.
C5_InsertSequence ==
    [][op'.name \in InsertCalls =>
            /\ Elems("a")' = InsertSeq(Elems("a"), op'.a, op'.x)
            /\ size_'["a"] = size_["a"] + 1
            /\ op'.ret = op'.a
            /\ Elems("a")'[op'.ret + 1] = op'.x]_vars

\* C5 witness: an in-place Insert in the middle shifted two or more elements
\* that are not all equal
C5_Witness ==
    /\ op.name = "Insert"
    /\ ~op.realloc
    /\ op.a >= 1
    /\ op.a + 2 < size_["a"]
    /\ Elems("a")[op.a + 2] # Elems("a")[op.a + 3]

\* C6: Insert(pos, x) followed by Erase at the same pos restores the element
\* sequence and the size (the capacity may have grown); Erase(pos) removes the
\* element at pos, keeps the others in order, leaves the vacated last slot raw
\* and decrements size by 1.
C6_InsertEraseInverse ==
    [][/\ op'.undo => Elems("a")' = saved /\ size_'["a"] = Len(saved)
       /\ op'.name = "Erase" =>
            /\ Elems("a")' = RemoveSeq(Elems("a"), op'.a)
            /\ size_'["a"] = size_["a"] - 1
            /\ heap'[buffer_'["a"]].mem[size_["a"]] = Raw
            /\ capacity_' = capacity_
            /\ buffer_' = buffer_]_vars

\* C6 witness: an Erase undid an Insert in the middle of three or more
\* elements that are not all equal
C6_Witness ==
    /\ op.undo
    /\ Elems("a") = saved
    /\ op.a >= 1
    /\ op.a + 1 < Len(saved)
    /\ \E i, j \in 1 .. Len(saved) : saved[i] # saved[j]

Min(m, n) == IF m <= n THEN m ELSE n

\* C7: after Resize(newSize), Size() == newSize and the elements at
\* [0, min(oldSize, newSize)) are unchanged; shrinking destroys exactly
\* [newSize, oldSize) and keeps the capacity; growing leaves every element at
\* [oldSize, newSize) with the default value of T and the capacity at
\* max(oldCapacity, newSize).
C7_ResizeDefaultValues ==
    [][op'.name = "Resize" =>
            /\ size_'["a"] = op'.a
            /\ \A i \in 1 .. Min(size_["a"], op'.a) : Elems("a")'[i] = Elems("a")[i]
            /\ op'.a < size_["a"] =>
                    /\ capacity_' = capacity_
                    /\ buffer_' = buffer_
                    /\ \A i \in 1 .. capacity_["a"] :
                            heap'[buffer_["a"]].mem[i] =
                                IF i > op'.a THEN Raw ELSE heap[buffer_["a"]].mem[i]
            /\ op'.a > size_["a"] =>
                    /\ \A i \in (size_["a"] + 1) .. op'.a : Elems("a")'[i] = Default
                    /\ capacity_'["a"] = Max(capacity_["a"], op'.a)]_vars

\* what Resize does guarantee: C7 without the value of the new elements
C7_ResizeExceptValues ==
    [][op'.name = "Resize" =>
            /\ size_'["a"] = op'.a
            /\ \A i \in 1 .. Min(size_["a"], op'.a) : Elems("a")'[i] = Elems("a")[i]
            /\ op'.a < size_["a"] =>
                    /\ capacity_' = capacity_
                    /\ buffer_' = buffer_
                    /\ \A i \in 1 .. capacity_["a"] :
                            heap'[buffer_["a"]].mem[i] =
                                IF i > op'.a THEN Raw ELSE heap[buffer_["a"]].mem[i]
            /\ op'.a > size_["a"] =>
                    /\ \A i \in (size_["a"] + 1) .. op'.a : Elems("a")'[i] \in Values
                    /\ capacity_'["a"] = Max(capacity_["a"], op'.a)]_vars

MoveCalls == {"Vector(move)", "operator=&&"}

\* C8 as claimed: after moving A into B, by move-construction or by
\* move-assignment onto a B in any prior state, B has A's prior size and
\* elements and A is left with Size() == 0 and Capacity() == 0.
C8_MoveLeavesSourceEmpty ==
    [][\A B, A \in Vecs :
            (op'.name \in MoveCalls /\ op'.v = B /\ op'.w = A /\ A # B) =>
                /\ size_'[B] = size_[A]
                /\ Elems(B)' = Elems(A)
                /\ size_'[A] = 0
                /\ capacity_'[A] = 0]_vars

\* C8 amended: after moving A into B, B has A's prior size and elements; after
\* move-construction A is left with size 0 and capacity 0; after
\* move-assignment A is left with B's prior size, capacity and elements (so with
\* size 0 and capacity 0 only when B had them).
C8_MoveTransfers ==
    [][\A B, A \in Vecs :
            (op'.name \in MoveCalls /\ op'.v = B /\ op'.w = A /\ A # B) =>
                /\ size_'[B] = size_[A]
                /\ Elems(B)' = Elems(A)
                /\ op'.name = "Vector(move)" =>
                        /\ size_'[A] = 0
                        /\ capacity_'[A] = 0
                /\ op'.name = "operator=&&" =>
                        /\ size_'[A] = size_[B]
                        /\ capacity_'[A] = capacity_[B]
                        /\ Elems(A)' = Elems(B)]_vars

\* C8 witness: a move-assignment onto a non-empty vector gave it the source's
\* elements and left the source non-empty
C8_Witness ==
    /\ op.name = "operator=&&"
    /\ op.v # op.w
    /\ size_[op.v] >= 1
    /\ size_[op.w] >= 1
    /\ Elems(op.v) # Elems(op.w)

\* C9: move-assignment with this != &src exchanges the two vectors' block,
\* capacity and size and does nothing else (no slot of any block changes, no
\* block is allocated or released); self move-assignment changes nothing.
C9_MoveAssignIsSwap ==
    [][\A this, src \in Vecs :
            (op'.name = "operator=&&" /\ op'.v = this /\ op'.w = src) =>
                /\ heap' = heap
                /\ alive' = alive
                /\ buffer_' = [buffer_ EXCEPT ![this] = buffer_[src], ![src] = buffer_[this]]
                /\ capacity_' = [capacity_ EXCEPT ![this] = capacity_[src],
                                                  ![src] = capacity_[this]]
                /\ size_' = [size_ EXCEPT ![this] = size_[src], ![src] = size_[this]]
                /\ Elems(this)' = Elems(src)
                /\ Elems(src)' = Elems(this)]_vars

\* C9 witness: a move-assignment exchanged two blocks of different capacity,
\* both holding elements
C9_Witness ==
    /\ op.name = "operator=&&"
    /\ op.v # op.w
    /\ buffer_[op.v] # NullPtr
    /\ buffer_[op.w] # NullPtr
    /\ capacity_[op.v] # capacity_[op.w]
    /\ size_[op.v] >= 1
    /\ size_[op.w] >= 1

\* size, capacity, block and every slot of w's block are as before the step
Untouched(w) ==
    /\ size_'[w] = size_[w]
    /\ capacity_'[w] = capacity_[w]
    /\ buffer_'[w] = buffer_[w]
    /\ buffer_[w] # NullPtr => heap'[buffer_[w]] = heap[buffer_[w]]

\* the calls that change the vector they are called on and no other object
Mutators ==
    GrowingCalls \cup {"PopBack", "Erase", "Resize", "Reserve", "operator[]", "operator="}

\* C10: copy-constructing C from A gives C the size of A, capacity exactly
\* A.size and equal elements in a block of its own, and leaves A as it was;
\* any mutating call on one vector (PushBack, PopBack, Insert, Erase, Resize,
\* Reserve, element overwrite, copy-assignment) leaves the other vector's size,
\* capacity, block and elements unchanged.
C10_CopyIsIndependent ==
    [][\A C, A \in Vecs :
            /\ (op'.name = "Vector(copy)" /\ op'.v = C /\ op'.w = A) =>
                    /\ size_'[C] = size_[A]
                    /\ capacity_'[C] = size_[A]
                    /\ Elems(C)' = Elems(A)
                    /\ size_[A] > 0 => /\ buffer_'[C] # NullPtr
                                       /\ buffer_'[C] # buffer_'[A]
                    /\ Untouched(A)
            /\ (op'.name \in Mutators /\ op'.v = C /\ A # C /\ alive[A]) =>
                    Untouched(A)]_vars

\* C10 witness: a copy of a vector with spare capacity holds the same elements
\* in another block, with capacity equal to its size
C10_Witness ==
    /\ op.name = "Vector(copy)"
    /\ size_[op.v] >= 1
    /\ capacity_[op.v] = size_[op.v]
    /\ capacity_[op.w] > size_[op.w]
    /\ Elems(op.v) = Elems(op.w)
    /\ buffer_[op.v] # buffer_[op.w]

\* C11: after copy-assignment a = b, a has b's size and elements and b is
\* unchanged.  If a's capacity was >= b.size, a keeps its block and capacity,
\* slots [0, b.size) hold b's values and every slot from b.size on is raw (the
\* tail [b.size, a.size) was destroyed, or the tail [a.size, b.size) was
\* constructed).  If a's capacity was < b.size, a ends with a new block of
\* capacity exactly b.size and its old block is released with every element
\* destroyed.  Self-assignment changes nothing.
C11_CopyAssign ==
    [][\A a, b \in Vecs :
            (op'.name = "operator=" /\ op'.v = a /\ op'.w = b) =>
                IF a = b
                THEN /\ heap' = heap
                     /\ buffer_' = buffer_
                     /\ capacity_' = capacity_
                     /\ size_' = size_
                ELSE /\ size_'[a] = size_[b]
                     /\ Elems(a)' = Elems(b)
                     /\ Untouched(b)
                     /\ capacity_[a] >= size_[b] =>
                            /\ buffer_'[a] = buffer_[a]
                            /\ capacity_'[a] = capacity_[a]
                            /\ \A i \in 0 .. (capacity_[a] - 1) :
                                    heap'[buffer_[a]].mem[i + 1] =
                                        IF i < size_[b] THEN heap[buffer_[b]].mem[i + 1]
                                        ELSE Raw
                     /\ capacity_[a] < size_[b] =>
                            /\ capacity_'[a] = size_[b]
                            /\ buffer_'[a] # NullPtr
                            /\ buffer_'[a] # buffer_[a]
                            /\ buffer_'[a] # buffer_'[b]
                            /\ heap'[buffer_'[a]].used
                            /\ buffer_[a] # NullPtr => heap'[buffer_[a]] = FreeBlock]_vars

\* C11 witness: a copy-assignment from a non-empty vector left the target in
\* a block larger than its new size, so in the block it had
C11_Witness ==
    /\ op.name = "operator="
    /\ op.v # op.w
    /\ size_[op.v] >= 1
    /\ capacity_[op.v] > size_[op.v]
    /\ Elems(op.v) = Elems(op.w)
    /\ \E i \in 1 .. size_[op.v] : Elems(op.v)[i] = Other

\* the vectors' fields and every slot of their blocks are as before the step
VectorsUnchanged ==
    /\ alive' = alive
    /\ buffer_' = buffer_
    /\ capacity_' = capacity_
    /\ size_' = size_
    /\ \A v \in Vecs : buffer_[v] # NullPtr => heap'[buffer_[v]] = heap[buffer_[v]]

\* C12: if allocating the new block fails during Reserve, a growing
\* PushBack / EmplaceBack / Insert / Emplace, a Resize beyond the capacity or a
\* copy-assignment that needs a larger block, the exception reaches the caller
\* and the vector is unmodified: same block, capacity and size, every element
\* live with its value, and nothing was constructed, moved from or destroyed
\* anywhere.
C12_AllocationFailure ==
    [][op'.fault = BadAlloc => VectorsUnchanged /\ heap' = heap]_vars

\* C12 witness: the allocation of a copy-assignment failed on a vector that
\* holds elements, not all equal
C12_Witness ==
    /\ op.fault = BadAlloc
    /\ op.name = "operator="
    /\ size_["a"] >= 1
    /\ size_["b"] > capacity_["a"]
    /\ Elems("a")[1] = Other

\* the element type relocates by copy-then-destroy
CopyStrategy == ~T.nothrow_move_constructible /\ T.copy_constructible

\* C13: for an element type relocated by copy-then-destroy, if constructing
\* or copying an element fails during PushBack / EmplaceBack (in place or
\* growing), Emplace in place at the end, a growing Insert / Emplace, Reserve
\* or a copy-assignment that replaces the block, the exception reaches the
\* caller and the vector is unchanged: size, capacity and block are the same,
\* every slot of the block is as before (the old elements live with their
\* values, the target slot raw), and the vector refers to nothing of the new
\* block.
C13_ElementFailure ==
    [][(op'.fault # NoFault /\ op'.fault # BadAlloc /\ CopyStrategy) =>
            VectorsUnchanged]_vars

\* C13 witness: the copy of the second element failed in a growing Insert
\* into a full vector of two different elements
C13_Witness ==
    /\ CopyStrategy
    /\ op.name = "Insert"
    /\ op.fault = 1
    /\ size_["a"] = 2
    /\ capacity_["a"] = 2
    /\ Elems("a")[1] # Elems("a")[2]

\* every block is owned by exactly one live vector or is released and empty
OwnedOnce ==
    /\ \A v \in Vecs :
            /\ ~alive[v] => buffer_[v] = NullPtr
            /\ (buffer_[v] = NullPtr) <=> (capacity_[v] = 0)
            /\ buffer_[v] # NullPtr => heap[buffer_[v]].used
            /\ \A w \in Vecs : (w # v /\ buffer_[v] # NullPtr) => buffer_[w] # buffer_[v]
    /\ \A b \in 1 .. NBlocks :
            /\ heap[b].used => \E v \in Vecs : alive[v] /\ buffer_[v] = b
            /\ ~heap[b].used => heap[b] = FreeBlock

RECURSIVE CeilLog2(_)
CeilLog2(n) == IF n <= 1 THEN 0 ELSE 1 + CeilLog2((n + 1) \div 2)

\* C15: N consecutive PushBack calls on an initially empty vector (size 0,
\* capacity 0) replace the block exactly ceil(log2 N) + 1 times, for every
\* N >= 1, and leave the capacity at the smallest power of two >= N.
C15_LogReallocations ==
    /\ nPush = 0 => nRealloc = 0 /\ capacity_["a"] = 0
    /\ nPush >= 1 =>
            /\ nRealloc = CeilLog2(nPush) + 1
            /\ capacity_["a"] = 2 ^ CeilLog2(nPush)
            /\ size_["a"] = nPush

\* C15 witness: the fifth PushBack replaced the block for the fourth time
C15_Witness ==
    /\ nPush = 5
    /\ nPop = 0
    /\ op.realloc
    /\ nRealloc = 4
    /\ capacity_["a"] = 8

\* C16: for every n >= 0 the size constructor Vector(n) yields size n and
\* capacity exactly n; for n = 0 no block is allocated; for n > 0 the vector
\* owns a newly allocated block of exactly n slots, all live and holding the
\* default value T(). The default constructor yields size 0 and capacity 0.
C16_SizeConstructor ==
    [][ /\ op'.name = "Vector(n)" =>
            /\ alive'["a"]
            /\ size_'["a"] = op'.a
            /\ capacity_'["a"] = op'.a
            /\ op'.a = 0 => buffer_'["a"] = NullPtr /\ heap' = heap
            /\ op'.a > 0 =>
                    /\ buffer_'["a"] # NullPtr
                    /\ ~heap[buffer_'["a"]].used
                    /\ heap'[buffer_'["a"]].used
                    /\ heap'[buffer_'["a"]].mem = [j \in 1 .. op'.a |-> Default]
                    /\ \A b \in 1 .. NBlocks : b # buffer_'["a"] => heap'[b] = heap[b]
        /\ op'.name = "Vector" =>
            /\ alive'["a"]
            /\ size_'["a"] = 0
            /\ capacity_'["a"] = 0
            /\ buffer_'["a"] = NullPtr
            /\ heap' = heap ]_vars

\* C16 witness: Vector(3) has just been constructed with three default values
C16_Witness ==
    /\ op.name = "Vector(n)"
    /\ op.a = 3
    /\ size_["a"] = 3
    /\ capacity_["a"] = 3
    /\ Elems("a") = <<Default, Default, Default>>

\* C17: in every operation a destructor of T runs only on a slot that holds a
\* live element and a constructor of T only on a raw slot; in particular
\* Reserve(newCapacity > capacity) destroys exactly the live elements of the
\* old block and never touches its raw slots.
C17_LifetimeDiscipline ==
    \A b \in 1 .. NBlocks : \A i \in 1 .. Len(heap[b].mem) : heap[b].mem[i] # Wrecked

\* the calls that transfer the elements to a new block through
\* UninitializedCopyMove
RelocatingCalls == GrowingCalls \cup {"Reserve", "Resize"}

\* C18: when elements are transferred from an old block to a new one (growth
\* in PushBack / EmplaceBack / Insert / Emplace, Reserve, Resize beyond the
\* capacity), each is move-constructed if T's move construction cannot fail
\* or T is not copy-constructible, and copy-constructed otherwise; whatever
\* construction fails, no element of the old block has been destroyed and the
\* vector's block has not been replaced.  So a call left at the construction
\* of element k leaves the block, capacity and size as they were and every old
\* element live: with the values they had when they are copied, with the
\* first k moved from when they are moved; and no construction of the
\* transfer fails when T's move construction cannot fail.
C18_RelocationOrder ==
    [][(op'.name \in RelocatingCalls /\ op'.fault # NoFault /\ op'.fault # BadAlloc) =>
            /\ alive' = alive
            /\ buffer_' = buffer_
            /\ capacity_' = capacity_
            /\ size_' = size_
            /\ \A i \in 0 .. (size_["a"] - 1) :
                    /\ Live(heap'[buffer_["a"]].mem[i + 1])
                    /\ heap'[buffer_["a"]].mem[i + 1] =
                            IF i < op'.fault /\ (T.nothrow_move_constructible
                                                 \/ ~T.copy_constructible)
                            THEN MovedFrom(heap[buffer_["a"]].mem[i + 1])
                            ELSE heap[buffer_["a"]].mem[i + 1]
            /\ op'.fault >= 0 => ~T.nothrow_move_constructible]_vars

\* C18 witness: the move of the second element failed in a Reserve of a vector
\* of two elements that cannot be copied; the first was moved from
C18_Witness ==
    /\ ~T.copy_constructible
    /\ op.name = "Reserve"
    /\ op.fault = 1
    /\ size_["a"] = 2
    /\ Elems("a")[1] = Default
    /\ Elems("a")[2] = Other

\* C19: no element is leaked when a copy fails in a growing PushBack,
\* EmplaceBack, Insert or Emplace (copy strategy): everything constructed in
\* the temporary block, the new element and the copied prefix included, is
\* destroyed before the block is released, so no released block holds an
\* element that was never destroyed.
C19_NoElementLeaked ==
    CopyStrategy =>
        \A b \in 1 .. NBlocks :
            ~heap[b].used => \A i \in 1 .. Len(heap[b].mem) : ~Live(heap[b].mem[i])


\* C20: when the value argument of PushBack(const T&) or Insert(pos, const T&)
\* is a reference to an element v[i] of the same vector, the element inserted
\* (at the end, or at pos) is a copy of the value v[i] held when the call was
\* made, for every i in [0, size) and pos in [0, size], whether the call grows
\* the block or shifts the elements in place.
C20_AliasedValue ==
    [][ op'.name \in {"PushBack(v[i])", "Insert(v[i])"} =>
            /\ size_'["a"] = Len(saved') + 1
            /\ Elems("a")'[op'.a + 1] = op'.x ]_vars

====
